---- MODULE Spec2Model ----
(***************************************************************************)
(* Model of package device (otto-devices): one Device, the goroutine that  *)
(* runs its TimerLoop, a goroutine calling SetError and a goroutine        *)
(* calling JSON.  Every access to a field of the Device is one step, so    *)
(* the accesses TimerLoop makes without d.mu interleave with the critical  *)
(* sections of SetError and JSON.                                          *)
(***************************************************************************)
EXTENDS Integers, FiniteSets, Sequences, TLC

\* ---- bounds of the model -------------------------------------------------
MaxPeriod == 2      \* periods passed to TimerLoop range over -1..MaxPeriod
MaxTicks  == 3      \* callback invocations per TimerLoop call
MaxRuns   == 2      \* TimerLoop calls on the device, one after the other
MaxTime   == 5      \* horizon of the clock of SpecTimed
NumProcs  == 2      \* goroutines using the registry; as many device names
MaxLen    == 2      \* longest device name and error text, in characters
MaxMsgs   == 3      \* messages delivered to an LED

\* ---- values --------------------------------------------------------------
StateUnknown      == "unknown"
StateInitializing == "initializing"
StateRunning      == "running"
StateError        == "error"
StateStopped      == "stopped"
DeviceState == {StateUnknown, StateInitializing, StateRunning, StateError, StateStopped}

\* the nil error, and the error values the callers use
Nil     == "<nil>"
SetErrs == {"test error"}                     \* arguments of SetError
CbErrs  == {"read failed", "marshal failed"}  \* failures readpub reports
Canceled         == "context canceled"
DeadlineExceeded == "context deadline exceeded"
CtxErrs == {Canceled, DeadlineExceeded}
ErrInvalidPeriod == "invalid period"
NoReturn == "(running)"                       \* TimerLoop has not returned

DeviceName == "test-device"
Periods == -1..MaxPeriod

\* the registry's callers, the device names "dev1".., and the devices (Name
\* values) they register: device d is named d, the last one is named like the first
Procs     == 1..NumProcs
Names     == 1..NumProcs
Devices   == 1..(NumProcs + 1)
NilDevice == 0
NameOf(d) == IF d > NumProcs THEN 1 ELSE d
ErrNilDevice == "cannot add nil device"

\* Texts are sequences of characters: a letter, the double quote, the backslash,
\* and a byte that is not valid UTF-8.  An error is nil or carries its text.
Units  == {"a", "quote", "backslash", "xFF"}
Strs   == UNION {[1..n -> Units] : n \in 0..MaxLen}
NoErr  == [isNil |-> TRUE, msg |-> <<>>]
NewErr(s) == [isNil |-> FALSE, msg |-> s]
NoDevice  == [Name |-> <<>>, State |-> "", Period |-> 0, err |-> NoErr]
NoDecoded == [Name |-> <<>>, State |-> <<>>, Period |-> <<>>, Error |-> <<>>]
Payloads  == {"on", "ON", "On", "1", "off", "OFF", "Off", "0", "oN", "toggle", ""}
NoOp  == [op |-> "", arg |-> 0]
NoRes == [err |-> Nil, ok |-> FALSE, dev |-> NilDevice, names |-> <<>>]

VARIABLES
    State, Period, err,     \* fields of the Device
    mu,                     \* d.mu: [w |-> writer holds it, r |-> readers]
    pc, period, cbErr, ret, \* TimerLoop: position, argument, readpub's result, result
    calls, runs,            \* readpub invocations of this call; TimerLoop calls so far
    ctxErr,                 \* ctx.Err() of the context given to TimerLoop
    tickerOn, tickC,        \* the ticker runs; a tick is buffered in ticker.C
    sePc, seArg,            \* SetError: position, argument
    jsPc, j,                \* JSON: position, the struct j being filled
    now, nextFire, cancelAt \* SpecTimed: clock, next tick time, cancellation time

VARIABLES
    dms,                    \* the DeviceManagers allocated: [devices, mu] each
    devices,                \* the package variable devices: 0 (nil) or an index of dms
    onceDone, onceM,        \* once: done flag; the goroutine holding its mutex, 0 if none
    rpc, rcur, rres,        \* per goroutine: position, operation in progress, its result
    h                       \* per goroutine: the *DeviceManager it holds, 0 if none yet

regVars   == <<dms, devices, onceDone, onceM, rpc, rcur, rres, h>>

VARIABLES
    enabled, mockMu,        \* mockCfg: the switch and its RWMutex
    mpc, marg, mres         \* per goroutine: position in Mock/IsMock, argument, result

mockVars  == <<enabled, mockMu, mpc, marg, mres>>

VARIABLES
    dev,                    \* TestDeviceJSON: the device d, its fields as texts
    data, decoded,          \* the bytes JSON() returned; the struct they decode to
    tpc                     \* how far the test has come

rtVars    == <<dev, data, decoded, tpc>>

VARIABLES
    value,                  \* the LED's pin value
    msgs                    \* the payloads delivered to the LED's Callback so far

ledVars   == <<value, msgs>>
extVars   == <<regVars, mockVars, rtVars, ledVars>>
devVars   == <<State, Period, err, mu>>
loopVars  == <<pc, period, cbErr, ret, calls, runs, ctxErr, tickerOn, tickC>>
seVars    == <<sePc, seArg>>
jsVars    == <<jsPc, j>>
timeVars  == <<now, nextFire, cancelAt>>
vars == <<devVars, loopVars, seVars, jsVars, timeVars, extVars>>

\* errString: the display string of an error, "" for nil
errString(e) == IF e # Nil THEN e ELSE ""

EmptyJ == [Name |-> "", State |-> "", Period |-> 0, Error |-> ""]

\* NewDevice: State unknown, no error, zero Period, mutex free
Init ==
    /\ State = StateUnknown /\ Period = 0 /\ err = Nil
    /\ mu = [w |-> FALSE, r |-> 0]
    /\ pc = "idle" /\ period = 0 /\ cbErr = Nil /\ ret = NoReturn
    /\ calls = 0 /\ runs = 0
    /\ ctxErr = Nil
    /\ tickerOn = FALSE /\ tickC = FALSE
    /\ sePc = "idle" /\ seArg = Nil
    /\ jsPc = "idle" /\ j = EmptyJ
    /\ now = 0 /\ nextFire = 0 /\ cancelAt = 0
    /\ dms = <<>> /\ devices = 0 /\ onceDone = FALSE /\ onceM = 0
    /\ rpc = [p \in Procs |-> "idle"]
    /\ rcur = [p \in Procs |-> NoOp]
    /\ rres = [p \in Procs |-> NoRes]
    /\ h = [p \in Procs |-> 0]
    /\ enabled = FALSE /\ mockMu = [w |-> FALSE, r |-> 0]
    /\ mpc = [p \in Procs |-> "idle"]
    /\ marg = [p \in Procs |-> FALSE]
    /\ mres = [p \in Procs |-> FALSE]
    /\ dev = NoDevice /\ data = <<>> /\ decoded = NoDecoded /\ tpc = "none"
    /\ value = 0 /\ msgs = <<>>

\* Error(): d.err read under the read lock
Error == err

\* ---- SetError ------------------------------------------------------------
SetErrorCall(e) ==
    /\ sePc = "idle"
    /\ sePc' = "lock" /\ seArg' = e
    /\ UNCHANGED <<devVars, loopVars, jsVars>>

\* variant: SetError takes the lock without waiting for the readers to leave
SetErrorLockShared ==
    /\ sePc = "lock"
    /\ ~mu.w
    /\ mu' = [mu EXCEPT !.w = TRUE]
    /\ sePc' = "l82"
    /\ UNCHANGED <<State, Period, err, seArg, loopVars, jsVars>>

\* d.mu.Lock()
SetErrorLock ==
    /\ sePc = "lock"
    /\ ~mu.w /\ mu.r = 0
    /\ mu' = [mu EXCEPT !.w = TRUE]
    /\ sePc' = "l82"
    /\ UNCHANGED <<State, Period, err, seArg, loopVars, jsVars>>

\* variant: SetError records the error and leaves State alone
SetErrorSetErrOnly ==
    /\ sePc = "l82"
    /\ err' = seArg
    /\ sePc' = "unlock"
    /\ UNCHANGED <<State, Period, mu, seArg, loopVars, jsVars>>

\* d.err = err; if err != nil
SetErrorSetErr ==
    /\ sePc = "l82"
    /\ err' = seArg
    /\ sePc' = IF seArg # Nil THEN "l84" ELSE "unlock"
    /\ UNCHANGED <<State, Period, mu, seArg, loopVars, jsVars>>

\* d.State = StateError
SetErrorSetState ==
    /\ sePc = "l84"
    /\ State' = StateError
    /\ sePc' = "unlock"
    /\ UNCHANGED <<Period, err, mu, seArg, loopVars, jsVars>>

\* deferred d.mu.Unlock(), return
SetErrorUnlock ==
    /\ sePc = "unlock"
    /\ mu' = [mu EXCEPT !.w = FALSE]
    /\ sePc' = "idle" /\ seArg' = Nil
    /\ UNCHANGED <<State, Period, err, loopVars, jsVars>>

\* ---- JSON ----------------------------------------------------------------
JSONCall ==
    /\ jsPc = "idle"
    /\ jsPc' = "rlock" /\ j' = EmptyJ
    /\ UNCHANGED <<devVars, loopVars, seVars>>

\* d.mu.RLock(); Name: d.Name
JSONRLock ==
    /\ jsPc = "rlock"
    /\ ~mu.w
    /\ mu' = [mu EXCEPT !.r = @ + 1]
    /\ j' = [j EXCEPT !.Name = DeviceName]
    /\ jsPc' = "l148"
    /\ UNCHANGED <<State, Period, err, loopVars, seVars>>

\* State: d.State
JSONReadState ==
    /\ jsPc = "l148"
    /\ j' = [j EXCEPT !.State = State]
    /\ jsPc' = "l150"
    /\ UNCHANGED <<devVars, loopVars, seVars>>

\* Period: d.Period
JSONReadPeriod ==
    /\ jsPc = "l150"
    /\ j' = [j EXCEPT !.Period = Period]
    /\ jsPc' = "l151"
    /\ UNCHANGED <<devVars, loopVars, seVars>>

\* Error: errString(d.err)
JSONReadErr ==
    /\ jsPc = "l151"
    /\ j' = [j EXCEPT !.Error = errString(err)]
    /\ jsPc' = "l154"
    /\ UNCHANGED <<devVars, loopVars, seVars>>

\* return json.Marshal(j), deferred d.mu.RUnlock()
JSONReturn ==
    /\ jsPc = "l154"
    /\ mu' = [mu EXCEPT !.r = @ - 1]
    /\ jsPc' = "idle" /\ j' = EmptyJ
    /\ UNCHANGED <<State, Period, err, loopVars, seVars>>

\* ---- the context and the ticker -------------------------------------------
\* cancel() of the context: the first cause stays
CtxCancel ==
    /\ pc \notin {"idle", "returned"}
    /\ ctxErr = Nil
    /\ ctxErr' = Canceled
    /\ UNCHANGED <<devVars, pc, period, cbErr, ret, calls, runs, tickerOn, tickC, seVars, jsVars>>

\* the context's deadline passes
CtxDeadline ==
    /\ pc \notin {"idle", "returned"}
    /\ ctxErr = Nil
    /\ ctxErr' = DeadlineExceeded
    /\ UNCHANGED <<devVars, pc, period, cbErr, ret, calls, runs, tickerOn, tickC, seVars, jsVars>>

\* the ticker sends on ticker.C (capacity 1; a tick nobody took is dropped)
TickerFire ==
    /\ tickerOn /\ ~tickC
    /\ tickC' = TRUE
    /\ UNCHANGED <<devVars, pc, period, cbErr, ret, calls, runs, ctxErr, tickerOn, seVars, jsVars>>

\* ---- TimerLoop -----------------------------------------------------------
\* variant: the validation tests period < 0
TimerLoopCallNegOnly(p, c) ==
    /\ pc \in {"idle", "returned"}
    /\ runs < MaxRuns
    /\ runs' = runs + 1
    /\ period' = p /\ ctxErr' = c
    /\ calls' = 0 /\ cbErr' = Nil
    /\ IF p < 0
         THEN pc' = "returned" /\ ret' = ErrInvalidPeriod
         ELSE pc' = "l109" /\ ret' = NoReturn
    /\ UNCHANGED <<devVars, tickerOn, tickC, seVars, jsVars>>

\* variant: the state is set to running before the period is validated
TimerLoopCallLateCheck(p, c) ==
    /\ pc \in {"idle", "returned"}
    /\ runs < MaxRuns
    /\ runs' = runs + 1
    /\ period' = p /\ ctxErr' = c
    /\ calls' = 0 /\ cbErr' = Nil
    /\ IF p <= 0
         THEN pc' = "returned" /\ ret' = ErrInvalidPeriod /\ State' = StateRunning
         ELSE pc' = "l109" /\ ret' = NoReturn /\ State' = State
    /\ UNCHANGED <<Period, err, mu, tickerOn, tickC, seVars, jsVars>>

\* TimerLoop(ctx, p, readpub) with ctx.Err() = c at the call; if period <= 0 return
TimerLoopCall(p, c) ==
    /\ pc \in {"idle", "returned"}
    /\ runs < MaxRuns
    /\ runs' = runs + 1
    /\ period' = p /\ ctxErr' = c
    /\ calls' = 0 /\ cbErr' = Nil
    /\ IF p <= 0
         THEN pc' = "returned" /\ ret' = ErrInvalidPeriod
         ELSE pc' = "l109" /\ ret' = NoReturn
    /\ UNCHANGED <<devVars, tickerOn, tickC, seVars, jsVars>>

\* d.Period = period
TimerLoopSetPeriod ==
    /\ pc = "l109"
    /\ Period' = period
    /\ pc' = "l110"
    /\ UNCHANGED <<State, err, mu, period, cbErr, ret, calls, runs, ctxErr, tickerOn, tickC, seVars, jsVars>>

\* d.State = StateRunning; ticker := time.NewTicker(period)
TimerLoopSetRunning ==
    /\ pc = "l110"
    /\ State' = StateRunning
    /\ tickerOn' = TRUE /\ tickC' = FALSE
    /\ pc' = "select"
    /\ UNCHANGED <<Period, err, mu, period, cbErr, ret, calls, runs, ctxErr, seVars, jsVars>>

\* variant: the cancellation branch returns without writing State
TimerLoopDoneNoStop ==
    /\ pc = "select"
    /\ ctxErr # Nil
    /\ ret' = ctxErr
    /\ tickerOn' = FALSE /\ tickC' = FALSE
    /\ pc' = "returned"
    /\ UNCHANGED <<State, Period, err, mu, period, cbErr, calls, runs, ctxErr, seVars, jsVars>>

\* variant: a select that takes the cancellation only when no tick is waiting
TimerLoopDonePriority ==
    /\ pc = "select"
    /\ ctxErr # Nil /\ ~tickC
    /\ State' = StateStopped
    /\ ret' = ctxErr
    /\ tickerOn' = FALSE /\ tickC' = FALSE
    /\ pc' = "returned"
    /\ UNCHANGED <<Period, err, mu, period, cbErr, calls, runs, ctxErr, seVars, jsVars>>

\* case <-ctx.Done(): d.State = StateStopped; return ctx.Err(); deferred ticker.Stop()
TimerLoopDone ==
    /\ pc = "select"
    /\ ctxErr # Nil
    /\ State' = StateStopped
    /\ ret' = ctxErr
    /\ tickerOn' = FALSE /\ tickC' = FALSE
    /\ pc' = "returned"
    /\ UNCHANGED <<Period, err, mu, period, cbErr, calls, runs, ctxErr, seVars, jsVars>>

\* case <-ticker.C: readpub is called
TimerLoopTick ==
    /\ pc = "select"
    /\ tickC
    /\ calls < MaxTicks
    /\ tickC' = FALSE
    /\ calls' = calls + 1
    /\ pc' = "readpub"
    /\ UNCHANGED <<devVars, period, cbErr, ret, runs, ctxErr, tickerOn, seVars, jsVars>>

\* variant: the result of readpub is stored whether or not it is nil
TimerLoopReadpubStoreAll(r) ==
    /\ pc = "readpub"
    /\ cbErr' = r
    /\ pc' = "l125"
    /\ UNCHANGED <<devVars, period, ret, calls, runs, ctxErr, tickerOn, tickC, seVars, jsVars>>

\* err := readpub() returns r; err != nil
TimerLoopReadpub(r) ==
    /\ pc = "readpub"
    /\ cbErr' = r
    /\ pc' = IF r # Nil THEN "l125" ELSE "select"
    /\ UNCHANGED <<devVars, period, ret, calls, runs, ctxErr, tickerOn, tickC, seVars, jsVars>>

\* variant: a failing tick ends the loop with readpub's error
TimerLoopSetErrReturn ==
    /\ pc = "l125"
    /\ err' = cbErr
    /\ ret' = cbErr
    /\ tickerOn' = FALSE /\ tickC' = FALSE
    /\ pc' = "returned"
    /\ UNCHANGED <<State, Period, mu, period, cbErr, calls, runs, ctxErr, seVars, jsVars>>

\* d.err = err
TimerLoopSetErr ==
    /\ pc = "l125"
    /\ err' = cbErr
    /\ pc' = "select"
    /\ UNCHANGED <<State, Period, mu, period, cbErr, ret, calls, runs, ctxErr, tickerOn, tickC, seVars, jsVars>>

\* ---- the specification ---------------------------------------------------
Next ==
    \/ (\E e \in SetErrs \cup {Nil} : SetErrorCall(e)) /\ UNCHANGED <<timeVars, extVars>>
    \/ SetErrorLock /\ UNCHANGED <<timeVars, extVars>>
    \/ SetErrorSetErr /\ UNCHANGED <<timeVars, extVars>>
    \/ SetErrorSetState /\ UNCHANGED <<timeVars, extVars>>
    \/ SetErrorUnlock /\ UNCHANGED <<timeVars, extVars>>
    \/ JSONCall /\ UNCHANGED <<timeVars, extVars>>
    \/ JSONRLock /\ UNCHANGED <<timeVars, extVars>>
    \/ JSONReadState /\ UNCHANGED <<timeVars, extVars>>
    \/ JSONReadPeriod /\ UNCHANGED <<timeVars, extVars>>
    \/ JSONReadErr /\ UNCHANGED <<timeVars, extVars>>
    \/ JSONReturn /\ UNCHANGED <<timeVars, extVars>>
    \/ CtxCancel /\ UNCHANGED <<timeVars, extVars>>
    \/ CtxDeadline /\ UNCHANGED <<timeVars, extVars>>
    \/ TickerFire /\ UNCHANGED <<timeVars, extVars>>
    \/ (\E p \in Periods, c \in CtxErrs \cup {Nil} : TimerLoopCall(p, c)) /\ UNCHANGED <<timeVars, extVars>>
    \/ TimerLoopSetPeriod /\ UNCHANGED <<timeVars, extVars>>
    \/ TimerLoopSetRunning /\ UNCHANGED <<timeVars, extVars>>
    \/ TimerLoopDone /\ UNCHANGED <<timeVars, extVars>>
    \/ TimerLoopTick /\ UNCHANGED <<timeVars, extVars>>
    \/ (\E r \in CbErrs \cup {Nil} : TimerLoopReadpub(r)) /\ UNCHANGED <<timeVars, extVars>>
    \/ TimerLoopSetErr /\ UNCHANGED <<timeVars, extVars>>

Spec == Init /\ [][Next]_vars

TypeOK ==
    /\ State \in DeviceState
    /\ Period \in 0..MaxPeriod
    /\ err \in {Nil} \cup SetErrs \cup CbErrs
    /\ mu \in [w : BOOLEAN, r : 0..1]
    /\ pc \in {"idle", "l109", "l110", "select", "readpub", "l125", "returned"}
    /\ ret \in {NoReturn, ErrInvalidPeriod} \cup CtxErrs
    /\ calls \in 0..MaxTicks /\ runs \in 0..MaxRuns
    /\ sePc \in {"idle", "lock", "l82", "l84", "unlock"}
    /\ jsPc \in {"idle", "rlock", "l148", "l150", "l151", "l154"}

\* ---- the same loop against a clock ---------------------------------------
\* Time is counted in units; the call is made at time 0 with a context that is
\* cancelled at time T.  A goroutine that can take a step takes it before the
\* clock moves on; time passes only while the loop waits in the select or
\* readpub is running.
TimedCall(p, T) ==
    /\ runs = 0
    /\ TimerLoopCall(p, Nil)
    /\ cancelAt' = now + T
    /\ UNCHANGED <<now, nextFire, extVars>>

\* variant: the ticker is created with twice the period
TimedSetRunningDouble ==
    /\ TimerLoopSetRunning
    /\ nextFire' = now + 2 * period
    /\ UNCHANGED <<now, cancelAt, extVars>>

\* d.State = StateRunning; ticker := time.NewTicker(period): first tick one period later
TimedSetRunning ==
    /\ TimerLoopSetRunning
    /\ nextFire' = now + period
    /\ UNCHANGED <<now, cancelAt, extVars>>

\* the ticker's time has come: it sends on ticker.C, or drops the tick if one is buffered
TimedTickerFire ==
    /\ tickerOn /\ now = nextFire
    /\ tickC' = TRUE
    /\ nextFire' = nextFire + period
    /\ UNCHANGED <<devVars, pc, period, cbErr, ret, calls, runs, ctxErr, tickerOn, seVars, jsVars, now, cancelAt, extVars>>

\* the clock moves on by one unit
Advance ==
    /\ now < MaxTime
    /\ pc \in {"select", "readpub"}
    /\ pc = "select" => (~tickC /\ ctxErr = Nil)
    /\ tickerOn => now < nextFire
    /\ ctxErr = Nil => now < cancelAt
    /\ now' = now + 1
    /\ UNCHANGED <<devVars, loopVars, seVars, jsVars, nextFire, cancelAt, extVars>>

TimedNext ==
    \/ \E p \in Periods, T \in 0..MaxTime : TimedCall(p, T)
    \/ TimerLoopSetPeriod /\ UNCHANGED <<timeVars, extVars>>
    \/ TimedSetRunning
    \/ TimedTickerFire
    \/ now = cancelAt /\ CtxCancel /\ UNCHANGED <<timeVars, extVars>>
    \/ now = cancelAt /\ CtxDeadline /\ UNCHANGED <<timeVars, extVars>>
    \/ TimerLoopDone /\ UNCHANGED <<timeVars, extVars>>
    \/ TimerLoopTick /\ UNCHANGED <<timeVars, extVars>>
    \/ (\E r \in CbErrs \cup {Nil} : TimerLoopReadpub(r)) /\ UNCHANGED <<timeVars, extVars>>
    \/ TimerLoopSetErr /\ UNCHANGED <<timeVars, extVars>>
    \/ Advance

SpecTimed == Init /\ [][TimedNext]_vars

\* ---- the device registry -------------------------------------------------
\* A Go map as the set of its <<key, value>> entries.
MapHas(m, k)    == \E e \in m : e[1] = k
MapGet(m, k)    == IF MapHas(m, k) THEN (CHOOSE e \in m : e[1] = k)[2] ELSE NilDevice
\* variants: an assignment that keeps the old entry; a delete that empties the map
MapPutKeep(m, k, v) == m \cup {<<k, v>>}
MapDeleteAll(m, k)  == {}
MapPut(m, k, v) == {e \in m : e[1] # k} \cup {<<k, v>>}
MapDelete(m, k) == {e \in m : e[1] # k}
MapKeys(m)      == {e[1] : e \in m}

\* the orders in which a range over the map may visit its entries
Orderings(S) ==
    {s \in [1..Cardinality(S) -> S] : \A a, b \in 1..Cardinality(S) : a # b => s[a] # s[b]}

\* List's loop: one name appended per entry, in the order of the range
ListOf(m) == {[i \in 1..Cardinality(m) |-> s[i][1]] : s \in Orderings(m)}

NewDeviceManager == [devices |-> {}, mu |-> [w |-> FALSE, r |-> 0]]

\* the DeviceManager goroutine p works on
DM(p) == dms[h[p]]

\* GetDeviceManager: once.Do(...), fast path when done is set
GDMCall(p) ==
    /\ rpc[p] = "idle"
    /\ rcur' = [rcur EXCEPT ![p] = [op |-> "GetDeviceManager", arg |-> 0]]
    /\ rpc' = [rpc EXCEPT ![p] = IF onceDone THEN "onceRet" ELSE "onceLock"]
    /\ UNCHANGED <<dms, devices, onceDone, onceM, rres, h>>

\* once.Do, slow path: the mutex of once
GDMOnceLock(p) ==
    /\ rpc[p] = "onceLock"
    /\ onceM = 0
    /\ onceM' = p
    /\ rpc' = [rpc EXCEPT ![p] = "onceSlow"]
    /\ UNCHANGED <<dms, devices, onceDone, rcur, rres, h>>

\* variant: the slow path runs the function without testing done again
GDMOnceSlowNoRecheck(p) ==
    /\ rpc[p] = "onceSlow"
    /\ dms' = Append(dms, NewDeviceManager)
    /\ devices' = Len(dms) + 1
    /\ onceDone' = TRUE
    /\ rpc' = [rpc EXCEPT ![p] = "onceUnlock"]
    /\ UNCHANGED <<onceM, rcur, rres, h>>

\* once.Do, slow path: if done is not set, devices = &DeviceManager{...}; done is set
GDMOnceSlow(p) ==
    /\ rpc[p] = "onceSlow"
    /\ IF ~onceDone
         THEN /\ dms' = Append(dms, NewDeviceManager)
              /\ devices' = Len(dms) + 1
              /\ onceDone' = TRUE
         ELSE UNCHANGED <<dms, devices, onceDone>>
    /\ rpc' = [rpc EXCEPT ![p] = "onceUnlock"]
    /\ UNCHANGED <<onceM, rcur, rres, h>>

GDMOnceUnlock(p) ==
    /\ rpc[p] = "onceUnlock"
    /\ onceM' = 0
    /\ rpc' = [rpc EXCEPT ![p] = "onceRet"]
    /\ UNCHANGED <<dms, devices, onceDone, rcur, rres, h>>

\* return devices
GDMReturn(p) ==
    /\ rpc[p] = "onceRet"
    /\ h' = [h EXCEPT ![p] = devices]
    /\ rpc' = [rpc EXCEPT ![p] = "idle"]
    /\ rcur' = [rcur EXCEPT ![p] = NoOp]
    /\ UNCHANGED <<dms, devices, onceDone, onceM, rres>>

\* variant: a Lock that does not wait for the readers to leave
LockNoWait(p, o, a) ==
    /\ rpc[p] = "idle" /\ h[p] # 0
    /\ ~DM(p).mu.w
    /\ dms' = [dms EXCEPT ![h[p]].mu.w = TRUE]
    /\ rcur' = [rcur EXCEPT ![p] = [op |-> o, arg |-> a]]
    /\ rres' = [rres EXCEPT ![p] = NoRes]
    /\ rpc' = [rpc EXCEPT ![p] = "wcs"]
    /\ UNCHANGED <<devices, onceDone, onceM, h>>

\* dm.mu.Lock() at the head of operation o with argument a
Lock(p, o, a) ==
    /\ rpc[p] = "idle" /\ h[p] # 0
    /\ ~DM(p).mu.w /\ DM(p).mu.r = 0
    /\ dms' = [dms EXCEPT ![h[p]].mu.w = TRUE]
    /\ rcur' = [rcur EXCEPT ![p] = [op |-> o, arg |-> a]]
    /\ rres' = [rres EXCEPT ![p] = NoRes]
    /\ rpc' = [rpc EXCEPT ![p] = "wcs"]
    /\ UNCHANGED <<devices, onceDone, onceM, h>>

\* dm.mu.RLock() at the head of operation o with argument a
RLock(p, o, a) ==
    /\ rpc[p] = "idle" /\ h[p] # 0
    /\ ~DM(p).mu.w
    /\ dms' = [dms EXCEPT ![h[p]].mu.r = @ + 1]
    /\ rcur' = [rcur EXCEPT ![p] = [op |-> o, arg |-> a]]
    /\ rres' = [rres EXCEPT ![p] = NoRes]
    /\ rpc' = [rpc EXCEPT ![p] = "rcs"]
    /\ UNCHANGED <<devices, onceDone, onceM, h>>

\* deferred dm.mu.Unlock() and return; the goroutine goes on to position next
UnlockTo(p, next) ==
    /\ rpc[p] = "wret"
    /\ dms' = [dms EXCEPT ![h[p]].mu.w = FALSE]
    /\ rpc' = [rpc EXCEPT ![p] = next]
    /\ rcur' = [rcur EXCEPT ![p] = NoOp]
    /\ rres' = [rres EXCEPT ![p] = NoRes]
    /\ UNCHANGED <<devices, onceDone, onceM, h>>

Unlock(p) == UnlockTo(p, "idle")

\* deferred dm.mu.RUnlock() and return
RUnlock(p) ==
    /\ rpc[p] = "rret"
    /\ dms' = [dms EXCEPT ![h[p]].mu.r = @ - 1]
    /\ rpc' = [rpc EXCEPT ![p] = "idle"]
    /\ rcur' = [rcur EXCEPT ![p] = NoOp]
    /\ rres' = [rres EXCEPT ![p] = NoRes]
    /\ UNCHANGED <<devices, onceDone, onceM, h>>

\* variant: Add without the nil test, nil goes the way of every device
AddNilNoCheck(p) == Lock(p, "Add", NilDevice)

\* Add(nil): if d == nil return an error, before any lock
AddNil(p) ==
    /\ rpc[p] = "idle" /\ h[p] # 0
    /\ rcur' = [rcur EXCEPT ![p] = [op |-> "Add", arg |-> NilDevice]]
    /\ rres' = [rres EXCEPT ![p] = [NoRes EXCEPT !.err = ErrNilDevice]]
    /\ rpc' = [rpc EXCEPT ![p] = "ret"]
    /\ UNCHANGED <<dms, devices, onceDone, onceM, h>>

\* the return of an operation that holds no lock
Return(p) ==
    /\ rpc[p] = "ret"
    /\ rpc' = [rpc EXCEPT ![p] = "idle"]
    /\ rcur' = [rcur EXCEPT ![p] = NoOp]
    /\ rres' = [rres EXCEPT ![p] = NoRes]
    /\ UNCHANGED <<dms, devices, onceDone, onceM, h>>

\* Add(d), d non-nil: lock
AddLock(p, d) == Lock(p, "Add", d)

\* variant: Add replaces the whole map by one holding only the new entry
AddStoreFresh(p) ==
    /\ rpc[p] = "wcs" /\ rcur[p].op = "Add"
    /\ dms' = [dms EXCEPT ![h[p]].devices = {<<NameOf(rcur[p].arg), rcur[p].arg>>}]
    /\ rpc' = [rpc EXCEPT ![p] = "wret"]
    /\ UNCHANGED <<devices, onceDone, onceM, rcur, rres, h>>

\* dm.devices[d.Name()] = d; return nil
AddStore(p) ==
    /\ rpc[p] = "wcs" /\ rcur[p].op = "Add"
    /\ dms' = [dms EXCEPT ![h[p]].devices = MapPut(@, NameOf(rcur[p].arg), rcur[p].arg)]
    /\ rpc' = [rpc EXCEPT ![p] = "wret"]
    /\ UNCHANGED <<devices, onceDone, onceM, rcur, rres, h>>

GetRLock(p, n) == RLock(p, "Get", n)

\* d, exists := dm.devices[name]; return d, exists
GetBody(p) ==
    /\ rpc[p] = "rcs" /\ rcur[p].op = "Get"
    /\ rres' = [rres EXCEPT ![p] = [NoRes EXCEPT !.dev = MapGet(DM(p).devices, rcur[p].arg),
                                                 !.ok = MapHas(DM(p).devices, rcur[p].arg)]]
    /\ rpc' = [rpc EXCEPT ![p] = "rret"]
    /\ UNCHANGED <<dms, devices, onceDone, onceM, rcur, h>>

RemoveLock(p, n) == Lock(p, "Remove", n)

\* if _, exists := dm.devices[name]; exists { delete; return true }; return false
RemoveBody(p) ==
    /\ rpc[p] = "wcs" /\ rcur[p].op = "Remove"
    /\ IF MapHas(DM(p).devices, rcur[p].arg)
         THEN /\ dms' = [dms EXCEPT ![h[p]].devices = MapDelete(@, rcur[p].arg)]
              /\ rres' = [rres EXCEPT ![p] = [NoRes EXCEPT !.ok = TRUE]]
         ELSE /\ UNCHANGED dms
              /\ rres' = [rres EXCEPT ![p] = [NoRes EXCEPT !.ok = FALSE]]
    /\ rpc' = [rpc EXCEPT ![p] = "wret"]
    /\ UNCHANGED <<devices, onceDone, onceM, rcur, h>>

ListRLock(p) == RLock(p, "List", 0)

\* names := make(...); for name := range dm.devices { append }; return names
ListBody(p) ==
    /\ rpc[p] = "rcs" /\ rcur[p].op = "List"
    /\ \E l \in ListOf(DM(p).devices) :
          rres' = [rres EXCEPT ![p] = [NoRes EXCEPT !.names = l]]
    /\ rpc' = [rpc EXCEPT ![p] = "rret"]
    /\ UNCHANGED <<dms, devices, onceDone, onceM, rcur, h>>

ClearLock(p) == Lock(p, "Clear", 0)

\* variant: Clear empties nothing
ClearBodyKeep(p) ==
    /\ rpc[p] = "wcs" /\ rcur[p].op = "Clear"
    /\ rpc' = [rpc EXCEPT ![p] = "wret"]
    /\ UNCHANGED <<dms, devices, onceDone, onceM, rcur, rres, h>>

\* dm.devices = make(map[string]Name)
ClearBody(p) ==
    /\ rpc[p] = "wcs" /\ rcur[p].op = "Clear"
    /\ dms' = [dms EXCEPT ![h[p]].devices = {}]
    /\ rpc' = [rpc EXCEPT ![p] = "wret"]
    /\ UNCHANGED <<devices, onceDone, onceM, rcur, rres, h>>

restOfReg == <<devVars, loopVars, seVars, jsVars, timeVars, mockVars, rtVars, ledVars>>

RegNext ==
    \/ \E p \in Procs : GDMCall(p) /\ UNCHANGED restOfReg
    \/ \E p \in Procs : GDMOnceLock(p) /\ UNCHANGED restOfReg
    \/ \E p \in Procs : GDMOnceSlow(p) /\ UNCHANGED restOfReg
    \/ \E p \in Procs : GDMOnceUnlock(p) /\ UNCHANGED restOfReg
    \/ \E p \in Procs : GDMReturn(p) /\ UNCHANGED restOfReg
    \/ \E p \in Procs : AddNil(p) /\ UNCHANGED restOfReg
    \/ \E p \in Procs : Return(p) /\ UNCHANGED restOfReg
    \/ \E p \in Procs, d \in Devices : AddLock(p, d) /\ UNCHANGED restOfReg
    \/ \E p \in Procs : AddStore(p) /\ UNCHANGED restOfReg
    \/ \E p \in Procs, n \in Names : GetRLock(p, n) /\ UNCHANGED restOfReg
    \/ \E p \in Procs : GetBody(p) /\ UNCHANGED restOfReg
    \/ \E p \in Procs, n \in Names : RemoveLock(p, n) /\ UNCHANGED restOfReg
    \/ \E p \in Procs : RemoveBody(p) /\ UNCHANGED restOfReg
    \/ \E p \in Procs : ListRLock(p) /\ UNCHANGED restOfReg
    \/ \E p \in Procs : ListBody(p) /\ UNCHANGED restOfReg
    \/ \E p \in Procs : ClearLock(p) /\ UNCHANGED restOfReg
    \/ \E p \in Procs : ClearBody(p) /\ UNCHANGED restOfReg
    \/ \E p \in Procs : Unlock(p) /\ UNCHANGED restOfReg
    \/ \E p \in Procs : RUnlock(p) /\ UNCHANGED restOfReg

SpecReg == Init /\ [][RegNext]_vars

\* TestDeviceManager_ConcurrentAccess: each goroutine adds its own device to the
\* registry, once, and is done; a goroutine may list the registry before it adds
AddOwn(p) == AddLock(p, p)
AddExit(p) == UnlockTo(p, "done")

ConcAddNext ==
    \/ \E p \in Procs : GDMCall(p) /\ UNCHANGED restOfReg
    \/ \E p \in Procs : GDMOnceLock(p) /\ UNCHANGED restOfReg
    \/ \E p \in Procs : GDMOnceSlow(p) /\ UNCHANGED restOfReg
    \/ \E p \in Procs : GDMOnceUnlock(p) /\ UNCHANGED restOfReg
    \/ \E p \in Procs : GDMReturn(p) /\ UNCHANGED restOfReg
    \/ \E p \in Procs : ListRLock(p) /\ UNCHANGED restOfReg
    \/ \E p \in Procs : ListBody(p) /\ UNCHANGED restOfReg
    \/ \E p \in Procs : RUnlock(p) /\ UNCHANGED restOfReg
    \/ \E p \in Procs : AddOwn(p) /\ UNCHANGED restOfReg
    \/ \E p \in Procs : AddStore(p) /\ UNCHANGED restOfReg
    \/ \E p \in Procs : AddExit(p) /\ UNCHANGED restOfReg

SpecConcAdd == Init /\ [][ConcAddNext]_vars

\* ---- the mock switch ------------------------------------------------------
\* Mock(b): mockCfg.mu.Lock()
MockLock(p, b) ==
    /\ mpc[p] = "idle"
    /\ ~mockMu.w /\ mockMu.r = 0
    /\ mockMu' = [mockMu EXCEPT !.w = TRUE]
    /\ marg' = [marg EXCEPT ![p] = b]
    /\ mpc' = [mpc EXCEPT ![p] = "mset"]
    /\ UNCHANGED <<enabled, mres>>

\* variant: Mock switches the mock mode on whatever its argument
MockSetOn(p) ==
    /\ mpc[p] = "mset"
    /\ enabled' = TRUE
    /\ mpc' = [mpc EXCEPT ![p] = "munlock"]
    /\ UNCHANGED <<mockMu, marg, mres>>

\* mockCfg.enabled = mocking
MockSet(p) ==
    /\ mpc[p] = "mset"
    /\ enabled' = marg[p]
    /\ mpc' = [mpc EXCEPT ![p] = "munlock"]
    /\ UNCHANGED <<mockMu, marg, mres>>

\* mockCfg.mu.Unlock(); Mock returns
MockUnlock(p) ==
    /\ mpc[p] = "munlock"
    /\ mockMu' = [mockMu EXCEPT !.w = FALSE]
    /\ mpc' = [mpc EXCEPT ![p] = "idle"]
    /\ marg' = [marg EXCEPT ![p] = FALSE]
    /\ UNCHANGED <<enabled, mres>>

\* IsMock(): mockCfg.mu.RLock()
IsMockRLock(p) ==
    /\ mpc[p] = "idle"
    /\ ~mockMu.w
    /\ mockMu' = [mockMu EXCEPT !.r = @ + 1]
    /\ mpc' = [mpc EXCEPT ![p] = "mread"]
    /\ UNCHANGED <<enabled, marg, mres>>

\* return mockCfg.enabled: the value is read
IsMockRead(p) ==
    /\ mpc[p] = "mread"
    /\ mres' = [mres EXCEPT ![p] = enabled]
    /\ mpc' = [mpc EXCEPT ![p] = "mret"]
    /\ UNCHANGED <<enabled, mockMu, marg>>

\* deferred mockCfg.mu.RUnlock(); IsMock returns the value read
IsMockReturn(p) ==
    /\ mpc[p] = "mret"
    /\ mockMu' = [mockMu EXCEPT !.r = @ - 1]
    /\ mpc' = [mpc EXCEPT ![p] = "idle"]
    /\ mres' = [mres EXCEPT ![p] = FALSE]
    /\ UNCHANGED <<enabled, marg>>

restOfMock == <<devVars, loopVars, seVars, jsVars, timeVars, regVars, rtVars, ledVars>>

\* Mock and IsMock called by every goroutine, next to SetError on the device and
\* to the first goroutine's use of the registry
MockNext ==
    \/ \E p \in Procs, b \in BOOLEAN : MockLock(p, b) /\ UNCHANGED restOfMock
    \/ \E p \in Procs : MockSet(p) /\ UNCHANGED restOfMock
    \/ \E p \in Procs : MockUnlock(p) /\ UNCHANGED restOfMock
    \/ \E p \in Procs : IsMockRLock(p) /\ UNCHANGED restOfMock
    \/ \E p \in Procs : IsMockRead(p) /\ UNCHANGED restOfMock
    \/ \E p \in Procs : IsMockReturn(p) /\ UNCHANGED restOfMock
    \/ \E e \in SetErrs : SetErrorCall(e) /\ UNCHANGED <<jsVars, timeVars, extVars>>
    \/ SetErrorLock /\ UNCHANGED <<jsVars, timeVars, extVars>>
    \/ SetErrorSetErr /\ UNCHANGED <<jsVars, timeVars, extVars>>
    \/ SetErrorSetState /\ UNCHANGED <<jsVars, timeVars, extVars>>
    \/ SetErrorUnlock /\ UNCHANGED <<jsVars, timeVars, extVars>>
    \/ GDMCall(1) /\ UNCHANGED restOfReg
    \/ GDMOnceLock(1) /\ UNCHANGED restOfReg
    \/ GDMOnceSlow(1) /\ UNCHANGED restOfReg
    \/ GDMOnceUnlock(1) /\ UNCHANGED restOfReg
    \/ GDMReturn(1) /\ UNCHANGED restOfReg
    \/ \E d \in Devices : AddLock(1, d) /\ UNCHANGED restOfReg
    \/ AddStore(1) /\ UNCHANGED restOfReg
    \/ ClearLock(1) /\ UNCHANGED restOfReg
    \/ ClearBody(1) /\ UNCHANGED restOfReg
    \/ Unlock(1) /\ UNCHANGED restOfReg

SpecMock == Init /\ [][MockNext]_vars

\* ---- the JSON snapshot, encoded and decoded --------------------------------
\* errString on an error carrying a text: err.Error(), "" for nil
errText(e) == IF ~e.isNil THEN e.msg ELSE <<>>

\* json.Marshal on one character of a string: the quote and the backslash are
\* escaped, a byte that is not valid UTF-8 is written as the escape of U+FFFD
Escape(c) ==
    CASE c = "quote"     -> <<"backslash", "quote">>
      [] c = "backslash" -> <<"backslash", "backslash">>
      [] c = "xFF"       -> <<"backslash", "u", "f", "f", "f", "d">>
      [] OTHER           -> <<c>>

RECURSIVE EscapeAll(_)
EscapeAll(s) == IF s = <<>> THEN <<>> ELSE Escape(Head(s)) \o EscapeAll(Tail(s))

\* a JSON string literal
Quote(s) == <<"quote">> \o EscapeAll(s) \o <<"quote">>

Digit(n) == <<"0", "1", "2", "3", "4", "5", "6", "7", "8", "9">>[n + 1]

\* json.Marshal(j): the object with the struct's fields in their order
Marshal(js) ==
    <<"{">> \o Quote(<<"Name">>) \o <<":">> \o Quote(js.Name)
      \o <<",">> \o Quote(<<"State">>) \o <<":">> \o Quote(<<js.State>>)
      \o <<",">> \o Quote(<<"Period">>) \o <<":", Digit(js.Period)>>
      \o <<",">> \o Quote(<<"Error">>) \o <<":">> \o Quote(js.Error)
      \o <<"}">>

\* the character a \u escape stands for
Rune(hex) == IF hex = <<"f", "f", "f", "d">> THEN "uFFFD" ELSE "?"

\* json.Unmarshal on the inside of a string literal
RECURSIVE Unescape(_)
Unescape(s) ==
    IF s = <<>> THEN <<>>
    ELSE IF Head(s) = "backslash"
         THEN IF s[2] = "u"
                THEN <<Rune(SubSeq(s, 3, 6))>> \o Unescape(SubSeq(s, 7, Len(s)))
                ELSE <<s[2]>> \o Unescape(SubSeq(s, 3, Len(s)))
         ELSE <<Head(s)>> \o Unescape(Tail(s))

\* the position of the quote that closes the literal whose inside starts at i
RECURSIVE StringEnd(_, _)
StringEnd(s, i) ==
    IF s[i] = "quote" THEN i
    ELSE IF s[i] = "backslash" THEN StringEnd(s, i + 2)
    ELSE StringEnd(s, i + 1)

\* the members of an object, from the opening quote of a key at i: <<key, value>> each
RECURSIVE ParseMembers(_, _)
ParseMembers(s, i) ==
    LET ke  == StringEnd(s, i + 1)
        key == Unescape(SubSeq(s, i + 1, ke - 1))
        v   == ke + 2
        ve  == IF s[v] = "quote" THEN StringEnd(s, v + 1) ELSE v
        val == IF s[v] = "quote" THEN Unescape(SubSeq(s, v + 1, ve - 1)) ELSE <<s[v]>>
    IN  <<<<key, val>>>> \o (IF s[ve + 1] = "," THEN ParseMembers(s, ve + 2) ELSE <<>>)

\* the value of the member named key, the zero value if there is none
Field(ms, key) ==
    IF \E i \in DOMAIN ms : ms[i][1] = <<key>>
      THEN ms[CHOOSE i \in DOMAIN ms : ms[i][1] = <<key>>][2]
      ELSE <<>>

\* json.Unmarshal(data, &decoded)
Unmarshal(s) ==
    LET ms == ParseMembers(s, 2)
    IN  [Name   |-> Field(ms, "Name"),   State |-> Field(ms, "State"),
         Period |-> Field(ms, "Period"), Error |-> Field(ms, "Error")]

\* d := NewDevice(name, "mqtt")
NewDevice(name) ==
    /\ tpc = "none"
    /\ dev' = [Name |-> name, State |-> StateUnknown, Period |-> 0, err |-> NoErr]
    /\ tpc' = "dev"
    /\ UNCHANGED <<data, decoded>>

\* variant: SetError records the error and leaves the state
SetErrorKeepState(e) ==
    /\ tpc = "dev"
    /\ dev' = [dev EXCEPT !.err = e]
    /\ UNCHANGED <<data, decoded, tpc>>

\* d.SetError(e), the whole call: d.err = err; if err != nil { d.State = StateError }
SetError(e) ==
    /\ tpc = "dev"
    /\ dev' = [dev EXCEPT !.err = e, !.State = IF ~e.isNil THEN StateError ELSE @]
    /\ UNCHANGED <<data, decoded, tpc>>

\* data, err := d.JSON(), the whole call
JSON ==
    /\ tpc = "dev"
    /\ data' = Marshal([Name |-> dev.Name, State |-> dev.State,
                        Period |-> dev.Period, Error |-> errText(dev.err)])
    /\ tpc' = "data"
    /\ UNCHANGED <<dev, decoded>>

\* json.Unmarshal(data, &decoded)
Decode ==
    /\ tpc = "data"
    /\ decoded' = Unmarshal(data)
    /\ tpc' = "decoded"
    /\ UNCHANGED <<dev, data>>

\* the test goes on with the same device
Again ==
    /\ tpc = "decoded"
    /\ data' = <<>> /\ decoded' = NoDecoded
    /\ tpc' = "dev"
    /\ UNCHANGED dev

restOfRt == <<devVars, loopVars, seVars, jsVars, timeVars, regVars, mockVars, ledVars>>

RtNext ==
    \/ \E name \in Strs : NewDevice(name) /\ UNCHANGED restOfRt
    \/ \E s \in Strs : SetError(NewErr(s)) /\ UNCHANGED restOfRt
    \/ SetError(NoErr) /\ UNCHANGED restOfRt
    \/ JSON /\ UNCHANGED restOfRt
    \/ Decode /\ UNCHANGED restOfRt
    \/ Again /\ UNCHANGED restOfRt

SpecRt == Init /\ [][RtNext]_vars

\* ---- the LED ---------------------------------------------------------------
\* the pin's On, Off and Value: the pin is driven to 1, to 0, and read back
On  == value' = 1
Off == value' = 0
Value == value

\* variant: the relay's Callback, which knows the lower-case words and the digits only
CallbackLower(m) ==
    /\ Len(msgs) < MaxMsgs
    /\ msgs' = Append(msgs, m)
    /\ CASE m \in {"off", "0"} -> Off
         [] m \in {"on", "1"}  -> On
         [] OTHER              -> UNCHANGED value

\* LED.Callback(msg): switch msg.String() { case "off", ...: l.Off()  case "on", ...: l.On() }
Callback(m) ==
    /\ Len(msgs) < MaxMsgs
    /\ msgs' = Append(msgs, m)
    /\ CASE m \in {"off", "OFF", "Off", "0"} -> Off
         [] m \in {"on", "ON", "On", "1"}    -> On
         [] OTHER                            -> UNCHANGED value

restOfLed == <<devVars, loopVars, seVars, jsVars, timeVars, regVars, mockVars, rtVars>>

LedNext == \E m \in Payloads : Callback(m) /\ UNCHANGED restOfLed

SpecLed == Init /\ [][LedNext]_vars

\* ---- the loop without a bound on its ticks -------------------------------
\* case <-ticker.C, any number of times: the count of callbacks stops at MaxTicks,
\* the ticks do not
TimerLoopTickOn ==
    /\ pc = "select"
    /\ tickC
    /\ tickC' = FALSE
    /\ calls' = IF calls < MaxTicks THEN calls + 1 ELSE calls
    /\ pc' = "readpub"
    /\ UNCHANGED <<devVars, period, cbErr, ret, runs, ctxErr, tickerOn, seVars, jsVars>>

restOfLoop == <<timeVars, extVars>>

LiveNext ==
    \/ CtxCancel /\ UNCHANGED restOfLoop
    \/ CtxDeadline /\ UNCHANGED restOfLoop
    \/ TickerFire /\ UNCHANGED restOfLoop
    \/ (\E p \in Periods, c \in CtxErrs \cup {Nil} : TimerLoopCall(p, c)) /\ UNCHANGED restOfLoop
    \/ TimerLoopSetPeriod /\ UNCHANGED restOfLoop
    \/ TimerLoopSetRunning /\ UNCHANGED restOfLoop
    \/ TimerLoopDone /\ UNCHANGED restOfLoop
    \/ TimerLoopTickOn /\ UNCHANGED restOfLoop
    \/ (\E r \in CbErrs \cup {Nil} : TimerLoopReadpub(r)) /\ UNCHANGED restOfLoop
    \/ TimerLoopSetErr /\ UNCHANGED restOfLoop

\* The goroutine of the loop is scheduled, and every call of readpub returns
\* (weak fairness of its steps and of the callback's return).  A select with
\* several ready cases takes one at random, so a cancellation that is ready at
\* infinitely many selects is taken at one of them (strong fairness).  Nothing is
\* assumed of the ticker and of the caller of cancel.
SpecLive ==
    /\ Init /\ [][LiveNext]_vars
    /\ WF_vars(TimerLoopSetPeriod /\ UNCHANGED restOfLoop)
    /\ WF_vars(TimerLoopSetRunning /\ UNCHANGED restOfLoop)
    /\ WF_vars(TimerLoopSetErr /\ UNCHANGED restOfLoop)
    /\ WF_vars((\E r \in CbErrs \cup {Nil} : TimerLoopReadpub(r)) /\ UNCHANGED restOfLoop)
    /\ SF_vars(TimerLoopDone /\ UNCHANGED restOfLoop)

\* ---- the registry next to the loop ----------------------------------------
\* The device of the loop is device 1, registered under its name by the first
\* goroutine, which also removes names and clears the registry while the loop runs.
\* variant: Remove cancels the context of the device's loop
IndRemoveBodyStopping ==
    /\ RemoveBody(1)
    /\ ctxErr' = Canceled
    /\ UNCHANGED <<devVars, pc, period, cbErr, ret, calls, runs, tickerOn, tickC>>
    /\ UNCHANGED <<seVars, jsVars, timeVars, mockVars, rtVars, ledVars>>

\* Remove's body: the map is all it touches
IndRemoveBody == RemoveBody(1) /\ UNCHANGED restOfReg

\* Clear's body: the map is all it touches
IndClearBody == ClearBody(1) /\ UNCHANGED restOfReg

IndNext ==
    \/ GDMCall(1) /\ UNCHANGED restOfReg
    \/ GDMOnceLock(1) /\ UNCHANGED restOfReg
    \/ GDMOnceSlow(1) /\ UNCHANGED restOfReg
    \/ GDMOnceUnlock(1) /\ UNCHANGED restOfReg
    \/ GDMReturn(1) /\ UNCHANGED restOfReg
    \/ AddLock(1, 1) /\ UNCHANGED restOfReg
    \/ AddStore(1) /\ UNCHANGED restOfReg
    \/ (\E n \in Names : RemoveLock(1, n)) /\ UNCHANGED restOfReg
    \/ IndRemoveBody
    \/ ClearLock(1) /\ UNCHANGED restOfReg
    \/ IndClearBody
    \/ Unlock(1) /\ UNCHANGED restOfReg
    \/ CtxCancel /\ UNCHANGED restOfLoop
    \/ CtxDeadline /\ UNCHANGED restOfLoop
    \/ TickerFire /\ UNCHANGED restOfLoop
    \/ (\E p \in Periods, c \in CtxErrs \cup {Nil} : TimerLoopCall(p, c)) /\ UNCHANGED restOfLoop
    \/ TimerLoopSetPeriod /\ UNCHANGED restOfLoop
    \/ TimerLoopSetRunning /\ UNCHANGED restOfLoop
    \/ TimerLoopDone /\ UNCHANGED restOfLoop
    \/ TimerLoopTick /\ UNCHANGED restOfLoop
    \/ (\E r \in CbErrs \cup {Nil} : TimerLoopReadpub(r)) /\ UNCHANGED restOfLoop
    \/ TimerLoopSetErr /\ UNCHANGED restOfLoop

SpecInd == Init /\ [][IndNext]_vars

\* ---- the claims ----------------------------------------------------------

\* C1: while TimerLoop runs, after a tick whose callback reports a failure the
\* device's state is Error.
C1_FailingTickSetsStateError ==
    [][(pc = "l125" /\ pc' = "select") => State' = StateError]_vars

\* C2: TimerLoop returns only on validation failure (invalid period) or on
\* cancellation with the context's error; no step of a tick, passing or
\* failing, returns, and after a failing tick the loop is back in its select
\* with the ticker running.
C2_ReturnsOnlyOnValidationOrCancel ==
    /\ [](pc = "returned" =>
            \/ (period <= 0 /\ ret = ErrInvalidPeriod)
            \/ (period > 0 /\ ret \in CtxErrs /\ ret = ctxErr))
    /\ [][(pc \in {"readpub", "l125"} /\ pc' # pc) =>
            (pc' \in {"select", "l125"} /\ tickerOn' /\ ret' = NoReturn)]_vars

\* the callback is running again after the previous tick of this call failed
C2_Witness == pc = "readpub" /\ cbErr \in CbErrs /\ calls >= 2

\* C3: a failing tick leaves Error() equal to that tick's error, and a passing
\* tick leaves Error() as it was.
C3_LastErrorIsLastFailingTick ==
    [][(pc \in {"readpub", "l125"} /\ pc' = "select") =>
         Error' = IF cbErr' # Nil THEN cbErr' ELSE Error]_vars

\* a tick passed after an earlier tick of the first call failed; the error is kept
C3_Witness ==
    /\ runs = 1 /\ pc = "select" /\ calls >= 2
    /\ cbErr = Nil /\ Error \in CbErrs

\* C4: TimerLoop with period <= 0 returns an error at once, never invokes the
\* callback, and leaves State, Period and the last error as they were.
C4_InvalidPeriodRejected ==
    /\ []((runs > 0 /\ period <= 0) =>
            (pc = "returned" /\ ret = ErrInvalidPeriod /\ calls = 0))
    /\ [][(runs' # runs /\ period' <= 0) =>
            (pc' = "returned" /\ UNCHANGED <<State, Period, err>>)]_vars

\* an invalid period rejected on a device in state Error whose context is cancelled
C4_Witness ==
    /\ pc = "returned" /\ ret = ErrInvalidPeriod /\ period <= 0
    /\ State = StateError /\ ctxErr # Nil /\ Period > 0

\* C5: when the running loop takes the cancellation branch it returns the
\* context's error, the state is Stopped and the ticker is stopped.
C5_CancelStopsAndReturnsCause ==
    [][(pc = "select" /\ pc' = "returned") =>
         /\ ctxErr \in CtxErrs
         /\ ret' = ctxErr
         /\ State' = StateStopped
         /\ ~tickerOn']_vars

\* the loop returned deadline-exceeded after a failing tick and a SetError
C5_Witness ==
    /\ pc = "returned" /\ ret = DeadlineExceeded /\ State = StateStopped
    /\ calls >= 1 /\ Error # Nil

\* C6: a loop started with period > 0 whose context is cancelled at a time
\* T >= 2 * period after the start has invoked the callback when it returns.
C6_CallbackInvokedBeforeCancel ==
    (pc = "returned" /\ period > 0 /\ cancelAt >= 2 * period) => calls >= 1

\* returned on cancellation at T >= 2 * period with the callback invoked
C6_Witness ==
    /\ pc = "returned" /\ period > 0 /\ cancelAt >= 2 * period
    /\ calls >= 1 /\ State = StateStopped /\ ret \in CtxErrs

\* C7: when SetError(e), e non-nil, returns, State is Error and Error() is e.
C7_SetErrorYieldsError ==
    (sePc = "unlock" /\ seArg # Nil) => (State = StateError /\ Error = seArg)

\* C8 as claimed, for an error recorded by SetError: outside SetError's
\* critical section, a present last error implies State = Error.
C8_ErrorImpliesStateError ==
    (~mu.w /\ Error \in SetErrs) => State = StateError

\* C8 amended: outside SetError's critical section, a present last error
\* implies State is Error, Running or Stopped.
C8_ErrorImpliesNotFresh ==
    (~mu.w /\ Error # Nil) => State \in {StateError, StateRunning, StateStopped}

\* an error recorded by SetError on a device whose loop then started
C8_Witness ==
    /\ ~mu.w /\ Error \in SetErrs /\ State = StateRunning /\ pc = "select"

\* C9: a snapshot taken while the loop starts never holds the new period
\* together with the state from before the start.
C9_NoTornSnapshot ==
    jsPc = "l154" => ~(j.Period # 0 /\ j.State = StateUnknown)

\* C10: SetError's writes and JSON's reads never interleave, and a snapshot
\* taken with SetError calls around it (no loop started) holds the device's
\* state and error string as they are together, before or after a SetError.
C10_SnapshotAtomicWithSetError ==
    /\ sePc \in {"l82", "l84", "unlock"} => jsPc \in {"idle", "rlock"}
    /\ jsPc \in {"l148", "l150", "l151", "l154"} => sePc \in {"idle", "lock"}
    /\ (jsPc = "l154" /\ runs = 0) =>
          (j.State = State /\ j.Error = errString(err))

\* a snapshot of the state before the call is complete while SetError(e) waits
C10_Witness ==
    /\ jsPc = "l154" /\ runs = 0
    /\ sePc = "lock" /\ seArg # Nil
    /\ j.State = StateUnknown /\ j.Error = ""

\* the maps of all DeviceManagers, without their locks
Maps == [i \in DOMAIN dms |-> dms[i].devices]
NoDup(l) == \A a, b \in DOMAIN l : a # b => l[a] # l[b]
InWrite(p) == rpc[p] \in {"wcs", "wret"}
InRead(p)  == rpc[p] \in {"rcs", "rret"}

\* C11: Add(nil) returns a non-nil error, and neither its call nor its return
\* changes the names or the devices held by the registry.
C11_AddNilRejected ==
    [][\A p \in Procs :
          /\ (rcur[p] = NoOp /\ rcur'[p] = [op |-> "Add", arg |-> NilDevice])
               => (rres'[p].err # Nil /\ rpc'[p] = "ret" /\ Maps' = Maps)
          /\ (rcur[p] = [op |-> "Add", arg |-> NilDevice] /\ rcur'[p] # rcur[p])
               => (rres[p].err # Nil /\ rpc[p] = "ret" /\ Maps' = Maps)]_vars
C11_Witness ==
    \E p \in Procs :
        /\ rpc[p] = "ret" /\ rcur[p] = [op |-> "Add", arg |-> NilDevice]
        /\ rres[p].err = ErrNilDevice
        /\ DM(p).devices # {}

\* C12: the registry never holds two entries of one name; the store of Add(d)
\* leaves d registered under its name (a Get of the name finds d), and when the
\* name was registered before, the number of entries and every entry of another
\* name are what they were.
C12_AddReplaces ==
    [][/\ \A i \in DOMAIN dms' : \A e, f \in dms'[i].devices : e[1] = f[1] => e = f
       /\ \A p \in Procs :
            (rpc[p] = "wcs" /\ rcur[p].op = "Add" /\ rpc'[p] = "wret") =>
               LET m == dms[h[p]].devices
                   n == dms'[h[p]].devices
                   k == NameOf(rcur[p].arg)
               IN  /\ rres'[p].err = Nil
                   /\ MapHas(n, k) /\ MapGet(n, k) = rcur[p].arg
                   /\ MapHas(m, k) => Cardinality(n) = Cardinality(m)
                   /\ {e \in n : e[1] # k} = {e \in m : e[1] # k}]_vars
C12_Witness ==
    \E p \in Procs :
        /\ rpc[p] = "wret" /\ rcur[p] = [op |-> "Add", arg |-> NumProcs + 1]
        /\ DM(p).devices = {<<1, NumProcs + 1>>} \cup {<<k, k>> : k \in Names \ {1}}

\* C13: when every one of the N goroutines has added its own device to the
\* registry that started empty, List() returns N names, each device's name once;
\* and no List() before that returns a name twice.
C13_ConcurrentAddsAllListed ==
    /\ (\A p \in Procs : rpc[p] = "done") =>
          \A l \in ListOf(dms[devices].devices) :
              /\ Len(l) = NumProcs
              /\ \A k \in Names : Cardinality({a \in DOMAIN l : l[a] = k}) = 1
    /\ \A p \in Procs : NoDup(rres[p].names)
C13_Witness ==
    /\ \A p \in Procs : rpc[p] = "done"
    /\ MapKeys(dms[devices].devices) = Names

\* C14: the body of Remove(name) returns true exactly when the name was
\* registered; afterwards the name is not found, every other entry is what it
\* was, and when the name was not registered the registry is unchanged.
C14_RemoveReportsAndDeletes ==
    [][\A p \in Procs :
          (rpc[p] = "wcs" /\ rcur[p].op = "Remove" /\ rpc'[p] = "wret") =>
             LET m == dms[h[p]].devices
                 n == dms'[h[p]].devices
                 k == rcur[p].arg
             IN  /\ rres'[p].ok = MapHas(m, k)
                 /\ ~MapHas(n, k) /\ MapGet(n, k) = NilDevice
                 /\ {e \in n : e[1] # k} = {e \in m : e[1] # k}
                 /\ ~MapHas(m, k) => n = m]_vars
C14_Witness ==
    \E p \in Procs :
        /\ rpc[p] = "wret" /\ rcur[p].op = "Remove" /\ rres[p].ok
        /\ DM(p).devices # {}

\* C15: the body of Clear leaves the registry empty; an empty registry stays
\* empty until the store of an Add, and on an empty registry List() returns no
\* name and Get finds no device.
C15_ClearEmpties ==
    [][\A p \in Procs :
          /\ (rpc[p] = "wcs" /\ rcur[p].op = "Clear" /\ rpc'[p] = "wret")
                => dms'[h[p]].devices = {}
          /\ (h[p] # 0 /\ DM(p).devices = {} /\ dms'[h[p]].devices # {})
                => \E q \in Procs : rpc[q] = "wcs" /\ rcur[q].op = "Add" /\ rpc'[q] = "wret"
          /\ (rpc[p] = "rcs" /\ rpc'[p] = "rret" /\ DM(p).devices = {})
                => (rres'[p].names = <<>> /\ ~rres'[p].ok /\ rres'[p].dev = NilDevice)]_vars
C15_Witness ==
    \E p \in Procs :
        /\ rpc[p] = "wret" /\ rcur[p].op = "Clear"
        /\ DM(p).devices = {}

\* C16: at most one DeviceManager is ever allocated; GetDeviceManager returns a
\* non-nil pointer to it, to every caller, and so every caller sees the same entries.
C16_OneInstance ==
    /\ Len(dms) <= 1
    /\ \A p \in Procs :
          /\ rpc[p] = "onceRet" => devices # 0
          /\ h[p] # 0 => h[p] = devices
    /\ \A p, q \in Procs : (h[p] # 0 /\ h[q] # 0) => DM(p).devices = DM(q).devices
C16_Witness ==
    \E p, q \in Procs :
        /\ p # q
        /\ rpc[p] = "onceSlow" /\ onceDone
        /\ h[q] = devices /\ h[q] # 0 /\ DM(q).devices # {}

\* C17: while a goroutine is between Lock and Unlock of Add, Remove or Clear, no
\* other goroutine is inside any registry operation; the lock word says who is inside.
C17_WritersExclusive ==
    \A p \in Procs :
        /\ InWrite(p) => \A q \in Procs \ {p} : ~InWrite(q) /\ ~InRead(q)
        /\ (InWrite(p) \/ InRead(p)) =>
              /\ DM(p).mu.w = InWrite(p)
              /\ DM(p).mu.r = Cardinality({q \in Procs : InRead(q)})
C17_Witness ==
    \E p, q \in Procs :
        /\ p # q
        /\ rpc[p] = "rcs" /\ rcur[p].op = "Get"
        /\ rpc[q] = "rret" /\ rcur[q].op = "List" /\ rres[q].names # <<>>


\* C18: the mock switch starts disabled; only the assignment inside Mock(b)
\* changes it, to b, and it still is b when that Mock returns; IsMock() returns
\* the value the switch has at that moment. No step of SetError or of the
\* registry changes the switch.
C18_MockSwitch ==
    /\ enabled = FALSE
    /\ [][/\ enabled' # enabled =>
                \E p \in Procs : mpc[p] = "mset" /\ mpc'[p] = "munlock"
          /\ \A p \in Procs :
                /\ (mpc[p] = "mset" /\ mpc'[p] = "munlock") => enabled' = marg[p]
                /\ (mpc[p] = "munlock" /\ mpc'[p] = "idle") => enabled = marg[p]
                /\ (mpc[p] = "mread" /\ mpc'[p] = "mret") => mres'[p] = enabled
                /\ (mpc[p] = "mret" /\ mpc'[p] = "idle") => mres[p] = enabled]_vars
C18_Witness ==
    \E p, q \in Procs :
        /\ p # q
        /\ mpc[p] = "mret" /\ mres[p] = TRUE
        /\ mpc[q] = "mret" /\ mres[q] = TRUE
        /\ State = StateError /\ err # Nil
        /\ h[1] # 0 /\ DM(1).devices # {}


ValidUTF8(s) == \A i \in DOMAIN s : s[i] # "xFF"

\* C19 (as claimed): decoding the output of JSON() gives back the device's name,
\* the state Error and the error's text when an error is set, and an empty Error
\* field when none is.
C19_RoundTrip ==
    tpc = "decoded" =>
        /\ ~dev.err.isNil =>
              /\ decoded.Name = dev.Name
              /\ decoded.State = <<StateError>>
              /\ decoded.Error = dev.err.msg
        /\ dev.err.isNil => decoded.Error = <<>>

\* C19 (amended): with an error set the decoded state is Error; the decoded name
\* is the device's name when that is valid UTF-8, the decoded Error field is the
\* error's text when that is valid UTF-8; with no error the Error field is empty.
C19_RoundTripValidUTF8 ==
    tpc = "decoded" =>
        /\ ~dev.err.isNil =>
              /\ decoded.State = <<StateError>>
              /\ ValidUTF8(dev.Name) => decoded.Name = dev.Name
              /\ ValidUTF8(dev.err.msg) => decoded.Error = dev.err.msg
        /\ dev.err.isNil => decoded.Error = <<>>
C19_Witness ==
    /\ tpc = "decoded" /\ ~dev.err.isNil
    /\ dev.Name = <<"a", "quote">> /\ dev.err.msg = <<"backslash", "quote">>
    /\ decoded.Name = dev.Name /\ decoded.Error = dev.err.msg
    /\ decoded.State = <<StateError>>


\* what the last recognised command of a sequence of payloads asks for, 0 if none
RECURSIVE LastCommand(_)
LastCommand(s) ==
    IF s = <<>> THEN 0
    ELSE IF s[Len(s)] \in {"on", "ON", "On", "1"} THEN 1
    ELSE IF s[Len(s)] \in {"off", "OFF", "Off", "0"} THEN 0
    ELSE LastCommand(SubSeq(s, 1, Len(s) - 1))

C21_StoppedTerminal ==
    [][State = StateStopped => State' = StateStopped]_vars

\* C21 (amended): the state leaves Stopped only by SetError's write of Error for
\* a non-nil error or by the write of Running of a further TimerLoop call whose
\* period was accepted; and while the loop has returned no tick is taken, the
\* ticker is stopped and the callback count stands.
C21_StoppedLeftOnlyBySetErrorOrRestart ==
    [][/\ (State = StateStopped /\ State' # StateStopped) =>
             \/ sePc = "l84" /\ seArg # Nil /\ State' = StateError
             \/ pc = "l110" /\ period > 0 /\ State' = StateRunning
       /\ (pc = "returned" /\ pc' = "returned" /\ runs' = runs) =>
             (calls' = calls /\ ~tickerOn /\ ~tickerOn')]_vars

\* the loop was cancelled and has returned, and a SetError after that made the
\* state Error
C21_Witness ==
    /\ pc = "returned" /\ ret \in CtxErrs /\ calls >= 1
    /\ State = StateError /\ Error \in SetErrs


\* C22: a loop that is running with its context cancelled eventually returns,
\* given that every call of the callback returns, however often a tick is ready;
\* and while the callback has not returned the loop returns nothing: its only
\* step out of the callback is the callback's return.
C22_CancelledLoopReturns ==
    /\ (ctxErr # Nil /\ pc \in {"l109", "l110", "select", "readpub", "l125"}) ~> (pc = "returned")
    /\ [][pc = "readpub" => (ret' = NoReturn /\ pc' \in {"readpub", "l125", "select"})]_vars

\* the loop returned the cancellation after as many callbacks as are counted
C22_Witness ==
    /\ pc = "returned" /\ ret = Canceled /\ State = StateStopped
    /\ calls = MaxTicks /\ Error \in CbErrs


\* C23: a step of a registry operation, Remove and Clear among them, leaves the
\* device's state, period and error and the whole loop (its position, context,
\* ticker and callback count) as they were; a step of the loop, its stop on
\* cancellation and its record of a failing tick among them, leaves every
\* DeviceManager as it was.
C23_RegistryAndLoopIndependent ==
    [][/\ (rpc' # rpc \/ dms' # dms) => UNCHANGED <<devVars, loopVars>>
       /\ (<<devVars, loopVars>>' # <<devVars, loopVars>>) => UNCHANGED <<dms, devices, rpc, rres>>]_vars

\* the device was removed from the registry and its loop is inside a callback
C23_Witness ==
    /\ rpc[1] = "wret" /\ rcur[1] = [op |-> "Remove", arg |-> 1] /\ rres[1].ok
    /\ ~MapHas(DM(1).devices, 1)
    /\ pc = "readpub" /\ State = StateRunning /\ tickerOn /\ calls >= 1

====
